---- MODULE Spec2Model ----
(***************************************************************************)
(* MarketScraper: the report generator (ReportGenerator.py) and the four   *)
(* scrapers it drives (EconScraper.py, EarningsScraper.py,                  *)
(* TwitterScraper.py, RedditScraper.py).                                    *)
(*                                                                         *)
(* Python values are modelled as follows.                                  *)
(*   str            a TLA+ string                                          *)
(*   None           the string None (below), which str() renders "None"    *)
(*   Optional[T]    a record [isNone |-> BOOLEAN, v |-> T]                 *)
(*   dict           a sequence of entries [k |-> key, v |-> value] in      *)
(*                  insertion order (Python dicts keep insertion order)    *)
(*   JSON object    a TLA+ function from its keys to its values            *)
(*   datetime.date  a day number; day 0 is Monday 2024-01-01               *)
(*   text           the sequence of its lines (text.split("\n")); a line   *)
(*                  is a tuple of strings: a tag and the line's parts      *)
(***************************************************************************)
EXTENDS Integers, Sequences, FiniteSets, TLC

\* ------------------------------------------------------------------------
\* Bounds of the model
\* ------------------------------------------------------------------------

\* --lookahead ranges over -1..MaxLookahead
MaxLookahead == 1

\* a collector called directly gets start and end dates in 0..MaxDay
MaxDay == 2

\* ------------------------------------------------------------------------
\* Python built-ins
\* ------------------------------------------------------------------------

None == "<None>"

\* truthiness of a str-or-None value: None and "" are falsy
Falsy(v) == v = None \/ v = ""

\* a or b
Or(a, b) == IF Falsy(a) THEN b ELSE a

\* str(v) / "{}".format(v) / f"{v}"
PyStr(v) == IF v = None THEN "None" ELSE v

\* d.get(k)
Get(d, k) == IF k \in DOMAIN d THEN d[k] ELSE None

\* d.get(k, default)
GetDefault(d, k, default) == IF k \in DOMAIN d THEN d[k] ELSE default

\* s.strip(), on the strings of the model that carry surrounding whitespace
Strip(s) ==
    CASE s = " ABC " -> "ABC"
      [] s = " " -> ""
      [] OTHER -> s

\* the optional values
NoneOpt == [isNone |-> TRUE, v |-> <<>>]
Some(x) == [isNone |-> FALSE, v |-> x]

\* dict helpers: key in d, d[key], d[key] = value (keeps the position of an
\* existing key, appends a new one)
DictKeys(d) == {d[i].k : i \in 1..Len(d)}
DictAt(d, key) == d[CHOOSE i \in 1..Len(d) : d[i].k = key].v
DictSet(d, key, value) ==
    IF key \in DictKeys(d)
    THEN [i \in 1..Len(d) |-> IF d[i].k = key THEN [k |-> key, v |-> value] ELSE d[i]]
    ELSE Append(d, [k |-> key, v |-> value])

RECURSIVE Flatten(_)
\* the concatenation of a sequence of sequences
Flatten(ss) == IF ss = <<>> THEN <<>> ELSE Head(ss) \o Flatten(Tail(ss))

\* ------------------------------------------------------------------------
\* Text: "\n".join, str.strip, + "\n"
\* ------------------------------------------------------------------------

BlankLine == <<"">>

\* the lines of s + "\n", for a text s
WithNewline(lines) == lines \o <<BlankLine>>

RECURSIVE StripLeading(_)
StripLeading(lines) ==
    IF lines # <<>> /\ Head(lines) = BlankLine THEN StripLeading(Tail(lines)) ELSE lines

RECURSIVE StripTrailing(_)
StripTrailing(lines) ==
    IF lines # <<>> /\ lines[Len(lines)] = BlankLine
    THEN StripTrailing(SubSeq(lines, 1, Len(lines) - 1))
    ELSE lines

\* text.strip(): the blank lines at both ends go; "" is one blank line
StripText(lines) ==
    LET s == StripTrailing(StripLeading(lines)) IN IF s = <<>> THEN <<BlankLine>> ELSE s

\* ------------------------------------------------------------------------
\* Dates
\* ------------------------------------------------------------------------

\* date.strftime("%Y-%m-%d")
DateStr(d) ==
    <<"2024-01-01", "2024-01-02", "2024-01-03", "2024-01-04",
      "2024-01-05", "2024-01-06", "2024-01-07", "2024-01-08">>[d + 1]

\* date.strftime("%A, %B %d, %Y")
LongDate(d) ==
    <<"Monday, January 01, 2024", "Tuesday, January 02, 2024",
      "Wednesday, January 03, 2024", "Thursday, January 04, 2024",
      "Friday, January 05, 2024", "Saturday, January 06, 2024",
      "Sunday, January 07, 2024", "Monday, January 08, 2024">>[d + 1]

\* ------------------------------------------------------------------------
\* EconScraper.py: EconomicEvent and events_to_markdown
\* ------------------------------------------------------------------------

\* datetime.strptime(s, fmt) succeeds, for the two formats release_time tries
StrptimeOk(s, fmt) ==
    \/ fmt = "%Y-%m-%dT%H:%M:%S" /\ s \in {"2024-01-01T13:30:00"}
    \/ fmt = "%Y-%m-%dT%H:%M:%SZ" /\ s \in {"2024-01-02T09:00:00Z"}

\* EconomicEvent.release_time: the parsed timestamp (named by its text), or None
release_time(payload) ==
    LET release == Or(Get(payload, "DateUTC"), Get(payload, "date")) IN
    IF Falsy(release) THEN None
    ELSE IF StrptimeOk(PyStr(release), "%Y-%m-%dT%H:%M:%S") THEN release
    ELSE IF StrptimeOk(PyStr(release), "%Y-%m-%dT%H:%M:%SZ") THEN release
    ELSE None

\* one row of the table events_to_markdown builds
EventRow(data) ==
    LET when == Or(Or(Get(data, "DateUtc"), Get(data, "DateUTC")), Get(data, "Date"))
        time == Or(Get(data, "Time"), "")
    IN << "|",
          PyStr(Or(when, "")),
          PyStr(time),
          PyStr(GetDefault(data, "Country", "")),
          PyStr(GetDefault(data, "Event", "")),
          PyStr(GetDefault(data, "Actual", "")),
          PyStr(GetDefault(data, "Forecast", "")),
          PyStr(GetDefault(data, "Previous", "")) >>

EconHeader ==
    << <<"| Date | Time (UTC) | Country | Event | Actual | Forecast | Previous |">>,
       <<"|---|---|---|---|---|---|---|">> >>

events_to_markdown(events) ==
    IF events = <<>>
    THEN WithNewline(<< <<"No economic events found.">> >>)
    ELSE WithNewline(EconHeader \o [i \in 1..Len(events) |-> EventRow(events[i])])

\* ------------------------------------------------------------------------
\* EarningsScraper.py: EarningsEvent and earnings_to_markdown
\* ------------------------------------------------------------------------

\* EarningsEvent.from_api raises AttributeError when symbol or companyName is
\* present and null: None has no strip()
FromApiRaises(row) ==
    \/ GetDefault(row, "symbol", "") = None
    \/ GetDefault(row, "companyName", "") = None

EarningsEvent_from_api(row, on_date) ==
    [ symbol |-> Strip(GetDefault(row, "symbol", "")),
      company |-> Strip(GetDefault(row, "companyName", "")),
      date |-> on_date,
      eps_estimate |-> Get(row, "epsForecast"),
      eps_actual |-> Get(row, "epsActual"),
      time |-> Or(Get(row, "time"), Get(row, "timeZone")) ]

EarningsRow(event) ==
    << "|", PyStr(event.symbol), PyStr(event.company), PyStr(Or(event.time, "")),
       PyStr(Or(event.eps_estimate, "")), PyStr(Or(event.eps_actual, "")) >>

EarningsHeader ==
    << <<"| Symbol | Company | Time | EPS Estimate | EPS Actual |">>,
       <<"|---|---|---|---|---|">> >>

\* the loop body without its "if not day_events" branch
EarningsDayLines_NoEmptyCheck(event_date, day_events) ==
    << <<"###", LongDate(event_date)>> >> \o
    EarningsHeader
    \o [i \in 1..Len(day_events) |-> EarningsRow(day_events[i])]
    \o <<BlankLine>>

\* the lines the loop body appends for one date
EarningsDayLines(event_date, day_events) ==
    << <<"###", LongDate(event_date)>> >> \o
    ( IF day_events = <<>>
      THEN WithNewline(<< <<"No scheduled earnings releases.">> >>)
      ELSE EarningsHeader
           \o [i \in 1..Len(day_events) |-> EarningsRow(day_events[i])]
           \o <<BlankLine>> )

RECURSIVE SortedKeys(_)
\* sorted(events): the keys in ascending order
SortedKeys(keys) ==
    IF keys = {} THEN <<>>
    ELSE LET m == CHOOSE x \in keys : \A y \in keys : x <= y
         IN <<m>> \o SortedKeys(keys \ {m})

earnings_to_markdown(events) ==
    IF events = <<>>
    THEN WithNewline(<< <<"No earnings events found.">> >>)
    ELSE LET dates == SortedKeys(DictKeys(events))
         IN WithNewline(StripText(Flatten(
                [i \in 1..Len(dates) |-> EarningsDayLines(dates[i], DictAt(events, dates[i]))])))

\* ------------------------------------------------------------------------
\* TwitterScraper.py: Tweet and tweets_to_markdown
\* ------------------------------------------------------------------------

\* handle.lstrip("@")
LstripAt(handle) ==
    CASE handle = "@Bob" -> "Bob"
      [] OTHER -> handle

\* s.lower()
Lower(s) ==
    CASE s = "Bob" -> "bob"
      [] OTHER -> s

Tweet_from_api(payload) ==
    LET tweet_id == GetDefault(payload, "id", "")
        author_id == GetDefault(payload, "author_id", "")
    IN [ id |-> tweet_id,
         author_id |-> author_id,
         text |-> GetDefault(payload, "text", ""),
         created_at |-> Get(payload, "created_at"),
         url |-> IF Falsy(tweet_id) THEN <<"">>
                 ELSE <<"https://twitter.com/", PyStr(author_id), "/status/", PyStr(tweet_id)>> ]

\* tweet.text.strip() raises AttributeError when text is None
TweetLineRaises(tweet) == tweet.text = None

TweetLine(tweet) ==
    <<"-", Or(tweet.created_at, "")>> \o tweet.url \o <<Strip(tweet.text)>>

TweetsHandleLines(handle, items) ==
    << <<"###", "@", LstripAt(handle)>> >> \o
    ( IF items = <<>>
      THEN WithNewline(<< <<"No recent tweets found.">> >>)
      ELSE [i \in 1..Len(items) |-> TweetLine(items[i])] \o <<BlankLine>> )

\* the renderers that can raise return [raised, lines]
tweets_to_markdown(tweets) ==
    IF tweets = <<>>
    THEN [raised |-> FALSE, lines |-> WithNewline(<< <<"No tweets collected.">> >>)]
    ELSE IF \E i \in 1..Len(tweets) : \E j \in 1..Len(tweets[i].v) :
                TweetLineRaises(tweets[i].v[j])
    THEN [raised |-> TRUE, lines |-> <<>>]
    ELSE [raised |-> FALSE,
          lines |-> WithNewline(StripText(Flatten(
              [i \in 1..Len(tweets) |-> TweetsHandleLines(tweets[i].k, tweets[i].v)])))]

\* ------------------------------------------------------------------------
\* RedditScraper.py: RedditPost and reddit_to_markdown
\* ------------------------------------------------------------------------

\* float(x) raises ValueError on a string that is no number
FloatRaises(x) == x \in {"soon"}

\* float(x), named by its repr; 0 is the int the code defaults to
Float(x) ==
    CASE x = "0" -> "0.0"
      [] x = "1704115800" -> "1704115800.0"
      [] x = "1e18" -> "1e+18"
      [] OTHER -> x

\* RedditPost.from_listing raises when created_utc is no number
FromListingRaises(child) ==
    LET info == GetDefault(child, "data", <<>>) IN
    FloatRaises(Or(GetDefault(info, "created_utc", "0"), "0"))

RedditPost_from_listing(child) ==
    LET info == GetDefault(child, "data", <<>>)
        permalink == GetDefault(info, "permalink", "")
    IN [ id |-> PyStr(GetDefault(info, "id", "")),
         title |-> PyStr(GetDefault(info, "title", "")),
         author |-> PyStr(GetDefault(info, "author", "")),
         permalink |-> permalink,
         created_utc |-> Float(Or(GetDefault(info, "created_utc", "0"), "0")),
         url |-> IF Falsy(permalink) THEN <<PyStr(GetDefault(info, "url", ""))>>
                 ELSE <<"https://www.reddit.com", permalink>> ]

\* datetime.utcfromtimestamp raises (OverflowError, ValueError) out of its range
ParseTimestampRaises(timestamp) == timestamp = "1e+18"

_parse_timestamp(timestamp) ==
    CASE timestamp \in {None, "0.0"} -> ""
      [] timestamp = "1704115800.0" -> "2024-01-01 13:30 UTC"
      [] OTHER -> timestamp

RedditLine(post) ==
    <<"-", _parse_timestamp(post.created_utc)>> \o post.url
        \o <<post.title, "by u/", post.author>>

RedditSourceLines(source, entries) ==
    << <<"###">> \o source >> \o
    ( IF entries = <<>>
      THEN WithNewline(<< <<"No new posts.">> >>)
      ELSE [i \in 1..Len(entries) |-> RedditLine(entries[i])] \o <<BlankLine>> )

reddit_to_markdown(posts) ==
    IF posts = <<>>
    THEN [raised |-> FALSE, lines |-> WithNewline(<< <<"No Reddit activity found.">> >>)]
    ELSE IF \E i \in 1..Len(posts) : \E j \in 1..Len(posts[i].v) :
                ParseTimestampRaises(posts[i].v[j].created_utc)
    THEN [raised |-> TRUE, lines |-> <<>>]
    ELSE [raised |-> FALSE,
          lines |-> WithNewline(StripText(Flatten(
              [i \in 1..Len(posts) |-> RedditSourceLines(posts[i].k, posts[i].v)])))]

\* ------------------------------------------------------------------------
\* ReportGenerator.py: build_markdown_report
\* ------------------------------------------------------------------------

\* generated_at.strftime("%Y-%m-%d %H:%M %Z"), for the instant of the run
GeneratedAt == "2024-01-01 12:00 UTC"

SectionLines(title, fragment) == << <<"##", title>> >> \o fragment

\* a report that renders the Reddit block before the Twitter block
SectionOrder_RedditFirst == <<"economic", "earnings", "reddit", "twitter">>

\* the order of the four "if ... is not None" blocks
SectionOrder == <<"economic", "earnings", "twitter", "reddit">>

SectionTitle(source) ==
    CASE source = "economic" -> "Economic Calendar"
      [] source = "earnings" -> "Earnings Calendar"
      [] source = "twitter" -> "Twitter Highlights"
      [] source = "reddit" -> "Reddit Highlights"

\* the renderer of each block, as [raised, lines]
Fragment(source, value) ==
    CASE source = "economic" -> [raised |-> FALSE, lines |-> events_to_markdown(value)]
      [] source = "earnings" -> [raised |-> FALSE, lines |-> earnings_to_markdown(value)]
      [] source = "twitter" -> tweets_to_markdown(value)
      [] source = "reddit" -> reddit_to_markdown(value)

build_markdown_report(econ, earn, twit, redd) ==
    LET input == [economic |-> econ, earnings |-> earn, twitter |-> twit, reddit |-> redd]
        present == SelectSeq(SectionOrder, LAMBDA source : ~input[source].isNone)
        lines ==
            << <<"#", "Market Intelligence Report">>,
               <<"_Generated on", GeneratedAt, "_">>,
               BlankLine >>
            \o Flatten([i \in 1..Len(present) |->
                   SectionLines(SectionTitle(present[i]),
                                Fragment(present[i], input[present[i]].v).lines)])
    IN IF \E i \in 1..Len(present) : Fragment(present[i], input[present[i]].v).raised
       THEN [raised |-> TRUE, lines |-> <<>>]
       ELSE [raised |-> FALSE, lines |-> WithNewline(StripText(lines))]

\* ------------------------------------------------------------------------
\* The providers: what an HTTP call can come back with
\* ------------------------------------------------------------------------

\* session.get raises (connection error, timeout)
TransportError == [kind |-> "transport_error", status |-> 0, shape |-> "", items |-> <<>>]

\* a response with a status and a body; shape says what the body is, items
\* holds the records of a well-formed body
Response(status, shape, items) ==
    [kind |-> "response", status |-> status, shape |-> shape, items |-> items]

\* Trading Economics calendar events
evFull ==
    [ DateUTC |-> "2024-01-01T13:30:00", Country |-> "United States", Event |-> "CPI",
      Actual |-> "3.1%", Forecast |-> "3.0%", Previous |-> "2.9%" ]
evNull ==
    [ Date |-> "2024-01-02", Country |-> "Germany", Event |-> "IFO",
      Actual |-> None, Forecast |-> "86.0", Previous |-> None ]
evSparse == [ DateUTC |-> "soon", Event |-> "GDP" ]

EconomicPayloads == { <<>>, <<evFull>>, <<evNull, evSparse>> }

EconResponses ==
    { TransportError,
      Response(500, "", <<>>),
      Response(200, "invalid", <<>>),
      Response(200, "object", <<>>) }
    \cup { Response(200, "list", p) : p \in EconomicPayloads }

\* Nasdaq earnings rows
rowABC ==
    [ symbol |-> " ABC ", companyName |-> "Abc Inc", epsForecast |-> "1.20",
      epsActual |-> None, time |-> "time-pre-market" ]
rowSparse == [ symbol |-> "XYZ" ]
rowNullSymbol == [ symbol |-> None, companyName |-> "Nameless" ]

EarningsRowLists == { <<>>, <<rowSparse, rowABC>>, <<rowABC, rowNullSymbol>> }

EarningsResponses ==
    { TransportError,
      Response(500, "", <<>>),
      Response(200, "invalid", <<>>),
      Response(200, "data_null", <<>>),
      Response(200, "rows_null", <<>>) }
    \cup { Response(200, "rows", r) : r \in EarningsRowLists }

\* Twitter user lookup entries and timeline tweets
userAlice == [ username |-> "alice", id |-> "11" ]
userBob == [ username |-> "Bob", id |-> "22" ]

LookupEntryLists == { <<>>, <<userAlice>>, <<userBob>>, <<userAlice, userBob>> }

LookupResponses ==
    { TransportError,
      Response(200, "invalid", <<>>),
      Response(401, "errors", <<>>),
      Response(200, "no_data", <<>>) }
    \cup { Response(200, "data", e) : e \in LookupEntryLists }

twFull ==
    [ id |-> "900", author_id |-> "11", text |-> "Rates on hold",
      created_at |-> "2024-01-01T10:00:00.000Z" ]
twNullText == [ id |-> "901", author_id |-> "22", text |-> None ]

TweetLists == { <<>>, <<twFull>>, <<twNullText>> }

TimelineResponses ==
    { TransportError,
      Response(200, "invalid", <<>>),
      Response(429, "errors", <<>>),
      Response(200, "no_data", <<>>) }
    \cup { Response(200, "data", t) : t \in TweetLists }

\* Reddit listing children
postFull ==
    [ data |-> [ id |-> "t3a", title |-> "Earnings thread", author |-> "trader",
                 permalink |-> "/r/stocks/comments/t3a/", created_utc |-> "1704115800" ] ]
postNoTime == [ data |-> [ id |-> "t3b", title |-> "Daily", created_utc |-> None ] ]
postBadTime == [ data |-> [ id |-> "t3c", title |-> "Soon", created_utc |-> "soon" ] ]
postHugeTime == [ data |-> [ id |-> "t3d", title |-> "Millis", created_utc |-> "1e18" ] ]

ChildLists == { <<>>, <<postFull>>, <<postNoTime, postBadTime>>, <<postHugeTime>> }

ListingResponses ==
    { TransportError,
      Response(404, "", <<>>),
      Response(200, "invalid", <<>>),
      Response(200, "null", <<>>),
      Response(200, "data_null", <<>>) }
    \cup { Response(200, "children", c) : c \in ChildLists }

\* ------------------------------------------------------------------------
\* State
\* ------------------------------------------------------------------------

VARIABLES
    args,             \* the parsed command line (main), or the arguments of a direct call
    pc,               \* where main (or the direct caller) stands
    economic_events,  \* main's four locals, Optional
    earnings_events,
    twitter_posts,
    reddit_posts,
    call,             \* the frame of the collector that is running
    ret,              \* how the last collector call ended: returned a value or raised
    requests,         \* every HTTP request issued so far, in order
    invoked,          \* how many times each collector was invoked
    stderr,           \* the lines printed to sys.stderr
    report,           \* main's local report, Optional
    output,           \* the content written to args.output, Optional
    uncaught          \* the exception that left main, or ""

vars ==
    << args, pc, economic_events, earnings_events, twitter_posts, reddit_posts,
       call, ret, requests, invoked, stderr, report, output, uncaught >>

Sources == {"economic", "earnings", "twitter", "reddit"}

NoCall ==
    [ fn |-> "none", current |-> 0, end_date |-> 0, targets |-> <<>>, idx |-> 0,
      id_mapping |-> <<>>, times |-> <<>>, acc |-> <<>> ]
NoRet == [kind |-> "none", exc |-> "", value |-> <<>>]
Returned(v) == [kind |-> "ok", exc |-> "", value |-> v]
Raised(e) == [kind |-> "raise", exc |-> e, value |-> <<>>]

\* an HTTP request: who issued it, which endpoint, with what
Request(source, endpoint, arg) == [source |-> source, endpoint |-> endpoint, arg |-> arg]


\* what a piece of collector code leaves behind: the frame, the result if the
\* call ended, and the requests it issued
Step(c, r, q) == [call |-> c, ret |-> r, reqs |-> q]

\* ------------------------------------------------------------------------
\* EconScraper.py: fetch_economic_calendar
\* ------------------------------------------------------------------------

\* _build_params raises ValueError
BuildParamsRaises(start, end) == end < start

fetch_economic_calendar(start, end, resp) ==
    IF BuildParamsRaises(start, end)
    THEN Step(NoCall, Raised("ValueError: end date must be after start date"), <<>>)
    ELSE LET q == << Request("economic", "calendar", <<DateStr(start), DateStr(end)>>) >> IN
         IF resp.kind = "transport_error"
         THEN Step(NoCall, Raised("ConnectionError"), q)
         ELSE IF resp.status >= 400
         THEN Step(NoCall, Raised("EconomicCalendarError"), q)
         ELSE IF resp.shape = "invalid"
         THEN Step(NoCall, Raised("EconomicCalendarError"), q)
         ELSE IF resp.shape # "list"
         THEN Step(NoCall, Raised("EconomicCalendarError"), q)
         ELSE Step(NoCall, Returned(resp.items), q)

\* ------------------------------------------------------------------------
\* EarningsScraper.py: fetch_earnings, _fetch_for_date
\* ------------------------------------------------------------------------

\* fetch_earnings up to the loop
fetch_earnings(start, end) ==
    IF end < start
    THEN Step(NoCall, Raised("ValueError: end date must be after start date"), <<>>)
    ELSE Step([NoCall EXCEPT !.fn = "earnings", !.current = start, !.end_date = end],
              NoRet, <<>>)

\* _fetch_for_date(on_date): the events, or the exception it raises
_fetch_for_date(on_date, resp) ==
    IF resp.kind = "transport_error" THEN Raised("ConnectionError")
    ELSE IF resp.status >= 400 THEN Raised("EarningsCalendarError")
    ELSE IF resp.shape = "invalid" THEN Raised("JSONDecodeError")
    ELSE IF resp.shape = "data_null"
    THEN Raised("AttributeError: 'NoneType' object has no attribute 'get'")
    ELSE LET rows == IF resp.shape = "rows" THEN resp.items ELSE <<>> IN
         IF \E i \in 1..Len(rows) : FromApiRaises(rows[i])
         THEN Raised("AttributeError: 'NoneType' object has no attribute 'strip'")
         ELSE Returned([i \in 1..Len(rows) |-> EarningsEvent_from_api(rows[i], on_date)])

\* the while loop with an exclusive end: "while current < end_date"
EarningsLoop_ExclusiveEnd(c, resp) ==
    LET q == << Request("earnings", "earnings", <<DateStr(c.current)>>) >>
        r == _fetch_for_date(c.current, resp)
    IN IF r.kind = "raise"
       THEN Step(NoCall, r, q)
       ELSE LET events == DictSet(c.acc, c.current, r.value)
                current == c.current + 1
            IN IF current < c.end_date
               THEN Step([c EXCEPT !.acc = events, !.current = current], NoRet, q)
               ELSE Step(NoCall, Returned(events), q)

\* one turn of the while loop of fetch_earnings, and the return after the last
EarningsLoop(c, resp) ==
    LET q == << Request("earnings", "earnings", <<DateStr(c.current)>>) >>
        r == _fetch_for_date(c.current, resp)
    IN IF r.kind = "raise"
       THEN Step(NoCall, r, q)
       ELSE LET events == DictSet(c.acc, c.current, r.value)
                current == c.current + 1
            IN IF current <= c.end_date
               THEN Step([c EXCEPT !.acc = events, !.current = current], NoRet, q)
               ELSE Step(NoCall, Returned(events), q)

\* ------------------------------------------------------------------------
\* TwitterScraper.py: fetch_recent_tweets, _lookup_user_ids
\* ------------------------------------------------------------------------

\* ",".join(handle.lstrip("@") for handle in handles) is the empty string
UsernamesEmpty(handles) ==
    \/ handles = <<>>
    \/ Len(handles) = 1 /\ LstripAt(handles[1]) = ""

RECURSIVE InitialTweets(_)
\* {handle: [] for handle in handles}
InitialTweets(handles) ==
    IF handles = <<>> THEN <<>>
    ELSE DictSet(InitialTweets(SubSeq(handles, 1, Len(handles) - 1)),
                 handles[Len(handles)], <<>>)

RECURSIVE IdMapping(_)
\* {entry["username"].lower(): entry["id"] for entry in entries}
IdMapping(entries) ==
    IF entries = <<>> THEN <<>>
    ELSE DictSet(IdMapping(SubSeq(entries, 1, Len(entries) - 1)),
                 Lower(entries[Len(entries)].username), entries[Len(entries)].id)

\* _lookup_user_ids: the mapping, or the exception it raises
_lookup_user_ids(handles, resp) ==
    IF UsernamesEmpty(handles) THEN Returned(<<>>)
    ELSE IF resp.kind = "transport_error" THEN Raised("ConnectionError")
    ELSE IF resp.shape = "invalid" THEN Raised("JSONDecodeError")
    ELSE IF resp.shape = "errors" THEN Raised("TwitterScraperError")
    ELSE Returned(IdMapping(IF resp.shape = "data" THEN resp.items ELSE <<>>))

\* the requests _lookup_user_ids issues
LookupRequests(handles) ==
    IF UsernamesEmpty(handles) THEN <<>>
    ELSE << Request("twitter", "lookup", [i \in 1..Len(handles) |-> LstripAt(handles[i])]) >>

\* fetch_recent_tweets up to the loop over the handles; times are the
\* start_time and end_time parameters that are set
fetch_recent_tweets(handles, token, times, resp) ==
    IF ~token
    THEN Step(NoCall, Raised("RuntimeError"), <<>>)
    ELSE LET m == _lookup_user_ids(handles, resp)
             q == LookupRequests(handles)
         IN IF m.kind = "raise" THEN Step(NoCall, m, q)
            ELSE IF handles = <<>> THEN Step(NoCall, Returned(<<>>), q)
            ELSE Step([NoCall EXCEPT !.fn = "twitter", !.targets = handles, !.idx = 1,
                                     !.id_mapping = m.value, !.times = times,
                                     !.acc = InitialTweets(handles)],
                      NoRet, q)

\* the loop falling back to the first resolved id for a handle the lookup
\* did not resolve
TimelineLoop_FirstId(c, resp) ==
    LET handle == c.targets[c.idx]
        username == Lower(LstripAt(handle))
        user_id == IF username \in DictKeys(c.id_mapping)
                   THEN DictAt(c.id_mapping, username)
                   ELSE IF c.id_mapping # <<>> THEN c.id_mapping[1].v ELSE None
        skip == Falsy(user_id)
        q == IF skip THEN <<>>
             ELSE << Request("twitter", "timeline", <<user_id>> \o c.times) >>
        last == c.idx = Len(c.targets)
    IN IF skip
       THEN IF last THEN Step(NoCall, Returned(c.acc), q)
            ELSE Step([c EXCEPT !.idx = c.idx + 1], NoRet, q)
       ELSE IF resp.kind = "transport_error" THEN Step(NoCall, Raised("ConnectionError"), q)
       ELSE IF resp.shape = "invalid" THEN Step(NoCall, Raised("JSONDecodeError"), q)
       ELSE IF resp.shape = "errors" THEN Step(NoCall, Raised("TwitterScraperError"), q)
       ELSE LET items == IF resp.shape = "data" THEN resp.items ELSE <<>>
                tweets == DictSet(c.acc, handle,
                                  [i \in 1..Len(items) |-> Tweet_from_api(items[i])])
            IN IF last THEN Step(NoCall, Returned(tweets), q)
               ELSE Step([c EXCEPT !.idx = c.idx + 1, !.acc = tweets], NoRet, q)

\* one turn of the loop over the handles, and the return after the last
TimelineLoop(c, resp) ==
    LET handle == c.targets[c.idx]
        username == Lower(LstripAt(handle))
        user_id == IF username \in DictKeys(c.id_mapping)
                   THEN DictAt(c.id_mapping, username) ELSE None
        skip == Falsy(user_id)
        q == IF skip THEN <<>>
             ELSE << Request("twitter", "timeline", <<user_id>> \o c.times) >>
        last == c.idx = Len(c.targets)
    IN IF skip
       THEN IF last THEN Step(NoCall, Returned(c.acc), q)
            ELSE Step([c EXCEPT !.idx = c.idx + 1], NoRet, q)
       ELSE IF resp.kind = "transport_error" THEN Step(NoCall, Raised("ConnectionError"), q)
       ELSE IF resp.shape = "invalid" THEN Step(NoCall, Raised("JSONDecodeError"), q)
       ELSE IF resp.shape = "errors" THEN Step(NoCall, Raised("TwitterScraperError"), q)
       ELSE LET items == IF resp.shape = "data" THEN resp.items ELSE <<>>
                tweets == DictSet(c.acc, handle,
                                  [i \in 1..Len(items) |-> Tweet_from_api(items[i])])
            IN IF last THEN Step(NoCall, Returned(tweets), q)
               ELSE Step([c EXCEPT !.idx = c.idx + 1, !.acc = tweets], NoRet, q)

\* ------------------------------------------------------------------------
\* RedditScraper.py: fetch_reddit_updates, _fetch_listing
\* ------------------------------------------------------------------------

\* subreddit.lstrip("r/").strip() and user.lstrip("u/").strip(): lstrip drops
\* every leading character that is in the given set
SubredditName(subreddit) ==
    CASE subreddit = "r/investing" -> "investing"
      [] OTHER -> subreddit
UserName(user) ==
    CASE user = "u/trader" -> "trader"
      [] OTHER -> user

\* the key and the path of each listing, subreddits first, then users
ListingTargets(subreddits, users) ==
    [i \in 1..Len(subreddits) |->
        [key |-> <<"r/", SubredditName(subreddits[i])>>,
         path |-> <<"/r/", SubredditName(subreddits[i]), "/new.json">>]]
    \o
    [i \in 1..Len(users) |->
        [key |-> <<"u/", UserName(users[i])>>,
         path |-> <<"/user/", UserName(users[i]), "/submitted.json">>]]

\* fetch_reddit_updates up to the loops
fetch_reddit_updates(subreddits, users) ==
    LET targets == ListingTargets(subreddits, users) IN
    IF targets = <<>> THEN Step(NoCall, Returned(<<>>), <<>>)
    ELSE Step([NoCall EXCEPT !.fn = "reddit", !.targets = targets, !.idx = 1], NoRet, <<>>)

\* _fetch_listing(path): the posts, or the exception it raises
_fetch_listing(resp) ==
    IF resp.kind = "transport_error" THEN Raised("ConnectionError")
    ELSE IF resp.status >= 400 THEN Raised("RedditScraperError")
    ELSE IF resp.shape = "invalid" THEN Raised("JSONDecodeError")
    ELSE IF resp.shape = "data_null"
    THEN Raised("AttributeError: 'NoneType' object has no attribute 'get'")
    ELSE LET children == IF resp.shape = "children" THEN resp.items ELSE <<>> IN
         IF \E i \in 1..Len(children) : FromListingRaises(children[i])
         THEN Raised("ValueError: could not convert string to float")
         ELSE Returned([i \in 1..Len(children) |-> RedditPost_from_listing(children[i])])

\* the loops going on to the next listing after one has failed
ListingLoop_GoesOn(c, resp) ==
    LET target == c.targets[c.idx]
        q == << Request("reddit", "listing", target.path) >>
        r == _fetch_listing(resp)
    IN IF r.kind = "raise"
       THEN IF c.idx = Len(c.targets) THEN Step(NoCall, r, q)
            ELSE Step([c EXCEPT !.idx = c.idx + 1], r, q)
       ELSE LET results == DictSet(c.acc, target.key, r.value) IN
            IF c.idx = Len(c.targets) THEN Step(NoCall, Returned(results), q)
            ELSE Step([c EXCEPT !.idx = c.idx + 1, !.acc = results], NoRet, q)

\* one turn of the two loops of fetch_reddit_updates, and the return after the last
ListingLoop(c, resp) ==
    LET target == c.targets[c.idx]
        q == << Request("reddit", "listing", target.path) >>
        r == _fetch_listing(resp)
    IN IF r.kind = "raise" THEN Step(NoCall, r, q)
       ELSE LET results == DictSet(c.acc, target.key, r.value) IN
            IF c.idx = Len(c.targets) THEN Step(NoCall, Returned(results), q)
            ELSE Step([c EXCEPT !.idx = c.idx + 1, !.acc = results], NoRet, q)

\* ------------------------------------------------------------------------
\* The collectors run: one action per network round trip
\* ------------------------------------------------------------------------

\* the state a piece of collector code leaves
Apply(st) ==
    /\ call' = st.call
    /\ ret' = st.ret
    /\ requests' = requests \o st.reqs

EarningsStep ==
    /\ call.fn = "earnings"
    /\ \E resp \in EarningsResponses : Apply(EarningsLoop(call, resp))
    /\ UNCHANGED << args, pc, economic_events, earnings_events, twitter_posts,
                    reddit_posts, invoked, stderr, report, output, uncaught >>

TimelineStep ==
    /\ call.fn = "twitter"
    /\ \E resp \in TimelineResponses : Apply(TimelineLoop(call, resp))
    /\ UNCHANGED << args, pc, economic_events, earnings_events, twitter_posts,
                    reddit_posts, invoked, stderr, report, output, uncaught >>

ListingStep ==
    /\ call.fn = "reddit"
    /\ \E resp \in ListingResponses : Apply(ListingLoop(call, resp))
    /\ UNCHANGED << args, pc, economic_events, earnings_events, twitter_posts,
                    reddit_posts, invoked, stderr, report, output, uncaught >>


\* ------------------------------------------------------------------------
\* ReportGenerator.py: main
\* ------------------------------------------------------------------------

Max(a, b) == IF a >= b THEN a ELSE b

\* _daterange(start, lookahead)
_daterange(start, lookahead) == <<start, start + Max(0, lookahead)>>

\* parse_handles(value); value is None or the items value.split(",") gives
parse_handles(value) ==
    IF value.isNone \/ value.v = <<"">> THEN <<>>
    ELSE SelectSeq([i \in 1..Len(value.v) |-> Strip(value.v[i])], LAMBDA item : item # "")

\* the command lines of the model
TwitterArgs == { NoneOpt, Some(<<" ">>), Some(<<"alice">>), Some(<<"alice", " ", "@Bob">>) }
SubredditArgs == { NoneOpt, Some(<<"stocks">>) }
UserArgs == { NoneOpt, Some(<<"u/trader">>) }

MainArgs ==
    [ start : {0},
      lookahead : -1..MaxLookahead,
      twitter : TwitterArgs,
      reddit_subreddits : SubredditArgs,
      reddit_users : UserArgs,
      skip_economic : BOOLEAN,
      skip_earnings : BOOLEAN,
      skip_twitter : BOOLEAN,
      skip_reddit : BOOLEAN ]

Init ==
    /\ args \in MainArgs
    /\ pc = "economic"
    /\ economic_events = NoneOpt
    /\ earnings_events = NoneOpt
    /\ twitter_posts = NoneOpt
    /\ reddit_posts = NoneOpt
    /\ call = NoCall
    /\ ret = NoRet
    /\ requests = <<>>
    /\ invoked = [s \in Sources |-> 0]
    /\ stderr = <<>>
    /\ report = NoneOpt
    /\ output = NoneOpt
    /\ uncaught = ""

\* an except clause that only prints: the local stays None
TryResult_NoAssign(r) == IF r.kind = "ok" THEN Some(r.value) ELSE NoneOpt

\* a try block is left: the value the local gets (the collector's, or the
\* empty one the except clause assigns)
TryResult(r) == IF r.kind = "ok" THEN Some(r.value) ELSE Some(<<>>)

\* the except clause prints one line to sys.stderr
Printed(source, r) ==
    IF r.kind = "raise" THEN Append(stderr, <<"Failed to fetch", source, "data">>) ELSE stderr

\* lines 118-120: the economic collector is called, or skipped
MainEconomic ==
    /\ pc = "economic"
    /\ IF args.skip_economic
       THEN /\ pc' = "earnings"
            /\ UNCHANGED << call, ret, requests, invoked >>
       ELSE /\ pc' = "economic_ret"
            /\ invoked' = [invoked EXCEPT !["economic"] = @ + 1]
            /\ \E resp \in EconResponses :
                  LET window == _daterange(args.start, args.lookahead)
                  IN Apply(fetch_economic_calendar(window[1], window[2], resp))
    /\ UNCHANGED << args, economic_events, earnings_events, twitter_posts, reddit_posts,
                    stderr, report, output, uncaught >>

\* lines 120-123: the call returns into the try block, or the except clause runs
MainEconomicReturn ==
    /\ pc = "economic_ret"
    /\ ret.kind # "none"
    /\ economic_events' = TryResult(ret)
    /\ stderr' = Printed("economic", ret)
    /\ ret' = NoRet
    /\ pc' = "earnings"
    /\ UNCHANGED << args, earnings_events, twitter_posts, reddit_posts, call, requests,
                    invoked, report, output, uncaught >>

\* lines 125-127
MainEarnings ==
    /\ pc = "earnings"
    /\ IF args.skip_earnings
       THEN /\ pc' = "twitter"
            /\ UNCHANGED << call, ret, requests, invoked >>
       ELSE /\ pc' = "earnings_ret"
            /\ invoked' = [invoked EXCEPT !["earnings"] = @ + 1]
            /\ LET window == _daterange(args.start, args.lookahead)
               IN Apply(fetch_earnings(window[1], window[2]))
    /\ UNCHANGED << args, economic_events, earnings_events, twitter_posts, reddit_posts,
                    stderr, report, output, uncaught >>

\* an except clause that calls the collector again
MainEarningsReturn_Retry ==
    /\ pc = "earnings_ret"
    /\ ret.kind # "none"
    /\ earnings_events' = TryResult(ret)
    /\ stderr' = Printed("earnings", ret)
    /\ ret' = NoRet
    /\ pc' = IF ret.kind = "raise" /\ invoked["earnings"] < 3 THEN "earnings" ELSE "twitter"
    /\ UNCHANGED << args, economic_events, twitter_posts, reddit_posts, call, requests,
                    invoked, report, output, uncaught >>

\* lines 127-130
MainEarningsReturn ==
    /\ pc = "earnings_ret"
    /\ ret.kind # "none"
    /\ earnings_events' = TryResult(ret)
    /\ stderr' = Printed("earnings", ret)
    /\ ret' = NoRet
    /\ pc' = "twitter"
    /\ UNCHANGED << args, economic_events, twitter_posts, reddit_posts, call, requests,
                    invoked, report, output, uncaught >>

\* collect_twitter_data(handles): the handles it passes on
collect_twitter_handles(handles) ==
    SelectSeq([i \in 1..Len(handles) |-> Strip(handles[i])], LAMBDA handle : handle # "")

\* lines 132-135; the environment may or may not hold TWITTER_BEARER_TOKEN
MainTwitter ==
    /\ pc = "twitter"
    /\ LET twitter_handles == parse_handles(args.twitter) IN
       IF args.skip_twitter \/ twitter_handles = <<>>
       THEN /\ pc' = "reddit"
            /\ UNCHANGED << call, ret, requests, invoked >>
       ELSE /\ pc' = "twitter_ret"
            /\ invoked' = [invoked EXCEPT !["twitter"] = @ + 1]
            /\ LET handles == collect_twitter_handles(twitter_handles) IN
               IF handles = <<>>
               THEN Apply(Step(NoCall, Returned(<<>>), <<>>))
               ELSE \E token \in BOOLEAN : \E resp \in LookupResponses :
                       Apply(fetch_recent_tweets(handles, token, <<>>, resp))
    /\ UNCHANGED << args, economic_events, earnings_events, twitter_posts, reddit_posts,
                    stderr, report, output, uncaught >>

\* lines 135-138
MainTwitterReturn ==
    /\ pc = "twitter_ret"
    /\ ret.kind # "none"
    /\ twitter_posts' = TryResult(ret)
    /\ stderr' = Printed("twitter", ret)
    /\ ret' = NoRet
    /\ pc' = "reddit"
    /\ UNCHANGED << args, economic_events, earnings_events, reddit_posts, call, requests,
                    invoked, report, output, uncaught >>

\* the Reddit block asking for subreddits and users both
MainReddit_NeedsBoth ==
    /\ pc = "reddit"
    /\ LET reddit_subs == parse_handles(args.reddit_subreddits)
           reddit_users == parse_handles(args.reddit_users)
       IN IF args.skip_reddit \/ (reddit_subs = <<>> \/ reddit_users = <<>>)
          THEN /\ pc' = "build"
               /\ UNCHANGED << call, ret, requests, invoked >>
          ELSE /\ pc' = "reddit_ret"
               /\ invoked' = [invoked EXCEPT !["reddit"] = @ + 1]
               /\ Apply(fetch_reddit_updates(reddit_subs, reddit_users))
    /\ UNCHANGED << args, economic_events, earnings_events, twitter_posts, reddit_posts,
                    stderr, report, output, uncaught >>

\* lines 140-146
MainReddit ==
    /\ pc = "reddit"
    /\ LET reddit_subs == parse_handles(args.reddit_subreddits)
           reddit_users == parse_handles(args.reddit_users)
       IN IF args.skip_reddit \/ (reddit_subs = <<>> /\ reddit_users = <<>>)
          THEN /\ pc' = "build"
               /\ UNCHANGED << call, ret, requests, invoked >>
          ELSE /\ pc' = "reddit_ret"
               /\ invoked' = [invoked EXCEPT !["reddit"] = @ + 1]
               /\ Apply(fetch_reddit_updates(reddit_subs, reddit_users))
    /\ UNCHANGED << args, economic_events, earnings_events, twitter_posts, reddit_posts,
                    stderr, report, output, uncaught >>

\* the Reddit call outside its try block: the exception leaves main
MainRedditReturn_NoExcept ==
    /\ pc = "reddit_ret"
    /\ ret.kind # "none"
    /\ reddit_posts' = IF ret.kind = "ok" THEN Some(ret.value) ELSE reddit_posts
    /\ uncaught' = IF ret.kind = "raise" THEN ret.exc ELSE uncaught
    /\ pc' = IF ret.kind = "raise" THEN "crashed" ELSE "build"
    /\ ret' = NoRet
    /\ UNCHANGED << args, economic_events, earnings_events, twitter_posts, call, requests,
                    invoked, stderr, report, output >>

\* lines 146-149
MainRedditReturn ==
    /\ pc = "reddit_ret"
    /\ ret.kind # "none"
    /\ reddit_posts' = TryResult(ret)
    /\ stderr' = Printed("reddit", ret)
    /\ ret' = NoRet
    /\ pc' = "build"
    /\ UNCHANGED << args, economic_events, earnings_events, twitter_posts, call, requests,
                    invoked, report, output, uncaught >>

\* lines 151-157: build_markdown_report runs outside every try block, so an
\* exception a renderer raises leaves main
MainBuild ==
    /\ pc = "build"
    /\ LET built == build_markdown_report(economic_events, earnings_events,
                                          twitter_posts, reddit_posts)
       IN IF built.raised
          THEN /\ pc' = "crashed"
               /\ uncaught' = "build_markdown_report"
               /\ UNCHANGED report
          ELSE /\ pc' = "write"
               /\ report' = Some(built.lines)
               /\ UNCHANGED uncaught
    /\ UNCHANGED << args, economic_events, earnings_events, twitter_posts, reddit_posts,
                    call, ret, requests, invoked, stderr, output >>

\* lines 159-161: the report is written and main returns 0
MainWrite ==
    /\ pc = "write"
    /\ output' = report
    /\ pc' = "done"
    /\ UNCHANGED << args, economic_events, earnings_events, twitter_posts, reddit_posts,
                    call, ret, requests, invoked, stderr, report, uncaught >>

Next ==
    \/ MainEconomic \/ MainEconomicReturn
    \/ MainEarnings \/ EarningsStep \/ MainEarningsReturn
    \/ MainTwitter \/ TimelineStep \/ MainTwitterReturn
    \/ MainReddit \/ ListingStep \/ MainRedditReturn
    \/ MainBuild \/ MainWrite

Spec == Init /\ [][Next]_vars


\* ------------------------------------------------------------------------
\* The collectors called directly, with any arguments their signatures take
\* ------------------------------------------------------------------------

Days == 0..MaxDay

\* start_time / end_time of fetch_recent_tweets: <<>> is None, <<d>> the
\* ISO-8601 timestamp of midnight of day d
IsoTime(d) == <<"2024-01-01T00:00:00Z", "2024-01-02T00:00:00Z">>[d + 1]

\* the start_time and end_time entries fetch_recent_tweets adds to params
TimeParams(start_time, end_time) ==
    (IF start_time = <<>> THEN <<>> ELSE <<"start_time", IsoTime(start_time[1])>>)
    \o (IF end_time = <<>> THEN <<>> ELSE <<"end_time", IsoTime(end_time[1])>>)

DirectArgs ==
    [ fn : {"economic", "earnings"}, start : Days, end : Days,
      handles : {<<>>}, start_time : {<<>>}, end_time : {<<>>},
      subreddits : {<<>>}, users : {<<>>} ]
    \cup
    [ fn : {"twitter"}, start : {0}, end : {0},
      handles : {<<>>, <<"alice">>, <<"alice", "@Bob">>},
      start_time : {<<>>, <<0>>, <<1>>}, end_time : {<<>>, <<0>>, <<1>>},
      subreddits : {<<>>}, users : {<<>>} ]
    \cup
    [ fn : {"reddit"}, start : {0}, end : {0},
      handles : {<<>>}, start_time : {<<>>}, end_time : {<<>>},
      subreddits : {<<>>, <<"stocks">>, <<"r/investing", "stocks">>},
      users : {<<>>, <<"u/trader">>} ]

InitDirect ==
    /\ args \in DirectArgs
    /\ pc = "direct"
    /\ economic_events = NoneOpt
    /\ earnings_events = NoneOpt
    /\ twitter_posts = NoneOpt
    /\ reddit_posts = NoneOpt
    /\ call = NoCall
    /\ ret = NoRet
    /\ requests = <<>>
    /\ invoked = [s \in Sources |-> 0]
    /\ stderr = <<>>
    /\ report = NoneOpt
    /\ output = NoneOpt
    /\ uncaught = ""

\* the collector named by args.fn is entered
DirectCall ==
    /\ pc = "direct"
    /\ pc' = "direct_ret"
    /\ invoked' = [invoked EXCEPT ![args.fn] = @ + 1]
    /\ CASE args.fn = "economic" ->
              \E resp \in EconResponses :
                  Apply(fetch_economic_calendar(args.start, args.end, resp))
         [] args.fn = "earnings" ->
              Apply(fetch_earnings(args.start, args.end))
         [] args.fn = "twitter" ->
              \E token \in BOOLEAN : \E resp \in LookupResponses :
                  Apply(fetch_recent_tweets(args.handles, token,
                                            TimeParams(args.start_time, args.end_time), resp))
         [] args.fn = "reddit" ->
              Apply(fetch_reddit_updates(args.subreddits, args.users))
    /\ UNCHANGED << args, economic_events, earnings_events, twitter_posts, reddit_posts,
                    stderr, report, output, uncaught >>

\* the call has ended: its value or its exception reaches the caller
DirectReturn ==
    /\ pc = "direct_ret"
    /\ ret.kind # "none"
    /\ pc' = "returned"
    /\ UNCHANGED << args, economic_events, earnings_events, twitter_posts, reddit_posts,
                    call, ret, requests, invoked, stderr, report, output, uncaught >>

NextDirect ==
    \/ DirectCall \/ EarningsStep \/ TimelineStep \/ ListingStep \/ DirectReturn

CollectorSpec == InitDirect /\ [][NextDirect]_vars

\* a call runs to its end: Python executes the collector's statements one
\* after the other, and every HTTP call carries a timeout, so a step that can
\* be taken is taken
FairCollectorSpec == CollectorSpec /\ WF_vars(NextDirect)


\* ------------------------------------------------------------------------
\* Properties
\* ------------------------------------------------------------------------

\* main's local for each source
Stored(source) ==
    CASE source = "economic" -> economic_events
      [] source = "earnings" -> earnings_events
      [] source = "twitter" -> twitter_posts
      [] source = "reddit" -> reddit_posts

\* the except clause of the source has run
Failed(source) ==
    \E i \in 1..Len(stderr) : stderr[i] = <<"Failed to fetch", source, "data">>

\* the command line has main call the collector of the source
Configured(source) ==
    CASE source = "economic" -> ~args.skip_economic
      [] source = "earnings" -> ~args.skip_earnings
      [] source = "twitter" -> ~args.skip_twitter /\ parse_handles(args.twitter) # <<>>
      [] source = "reddit" ->
            /\ ~args.skip_reddit
            /\ \/ parse_handles(args.reddit_subreddits) # <<>>
               \/ parse_handles(args.reddit_users) # <<>>

\* main is past the four try blocks
PastCollectors == pc \in {"build", "write", "done", "crashed"}

\* every configured collector was invoked, whatever the earlier ones did
C1_AllInvoked ==
    PastCollectors => \A source \in Sources : Configured(source) => invoked[source] = 1

\* a local that holds a result keeps it
C1_StoredKept ==
    \A source \in Sources : ~Stored(source).isNone => Stored(source)' = Stored(source)

\* C1: for every subset of enabled sources and every combination of collector
\* outcomes, a failing collector does not keep the remaining enabled collectors
\* from being invoked, does not change a result already stored, and the run
\* goes through build_markdown_report, writes the report and returns 0 (no
\* exception leaves main).
C1_RunAlwaysCompletes ==
    /\ [](C1_AllInvoked /\ pc # "crashed" /\ (pc = "done" => ~output.isNone))
    /\ [][C1_StoredKept]_vars

\* the part of C1 that holds: the try blocks isolate the collectors from one
\* another (every configured collector runs, stored results are kept, and a
\* collector's exception never leaves main)
C1_CollectorsIsolated ==
    /\ [](C1_AllInvoked /\ uncaught \in {"", "build_markdown_report"})
    /\ [][C1_StoredKept]_vars


\* the report has the section of the source
HasSection(lines, source) ==
    \E i \in 1..Len(lines) : lines[i] = <<"##", SectionTitle(source)>>

\* the lines of the section of the source: from its header to the next header
SectionBody(lines, source) ==
    LET i == CHOOSE n \in 1..Len(lines) : lines[n] = <<"##", SectionTitle(source)>>
        later == {n \in (i + 1)..Len(lines) : lines[n][1] = "##"}
        next == IF later = {} THEN Len(lines) + 1
                ELSE CHOOSE n \in later : \A m \in later : n <= m
    IN SubSeq(lines, i + 1, next - 1)

\* the sentence each renderer has for an empty list or dict
EmptySentence(source) ==
    CASE source = "economic" -> "No economic events found."
      [] source = "earnings" -> "No earnings events found."
      [] source = "twitter" -> "No tweets collected."
      [] source = "reddit" -> "No Reddit activity found."

\* what the collector of the source returns when every provider call succeeds
\* with zero records
ZeroRecordResult(source) ==
    CASE source = "economic" -> <<>>
      [] source = "earnings" ->
            LET window == _daterange(args.start, args.lookahead)
            IN [i \in 1..(window[2] - window[1] + 1) |-> [k |-> window[1] + i - 1, v |-> <<>>]]
      [] source = "twitter" ->
            InitialTweets(collect_twitter_handles(parse_handles(args.twitter)))
      [] source = "reddit" ->
            LET targets == ListingTargets(parse_handles(args.reddit_subreddits),
                                          parse_handles(args.reddit_users))
            IN [i \in 1..Len(targets) |-> [k |-> targets[i].key, v |-> <<>>]]

\* C2: for every enabled source the report tells a failed collector from one
\* that succeeded with zero records: the section of a source whose collector
\* failed is never the section the same source gets when its collector
\* succeeds with zero records.
C2_FailedDiffersFromEmpty ==
    \A source \in Sources :
        Failed(source) =>
            Fragment(source, Stored(source).v).lines
                # Fragment(source, ZeroRecordResult(source)).lines

\* the report main would build with the local of one source left None
ReportWithout(source) ==
    build_markdown_report(
        IF source = "economic" THEN NoneOpt ELSE economic_events,
        IF source = "earnings" THEN NoneOpt ELSE earnings_events,
        IF source = "twitter" THEN NoneOpt ELSE twitter_posts,
        IF source = "reddit" THEN NoneOpt ELSE reddit_posts).lines

SkipFlag(source) ==
    CASE source = "economic" -> args.skip_economic
      [] source = "earnings" -> args.skip_earnings
      [] source = "twitter" -> args.skip_twitter
      [] source = "reddit" -> args.skip_reddit

\* C3: a source whose skip flag is set has no section in the report; a source
\* that was run and failed has a section, which holds the placeholder
\* sentence; and the report with the failed source differs from the report
\* the same run gives with that source disabled.
C3_DisabledOmittedFailedPlaceholder ==
    ~report.isNone =>
        \A source \in Sources :
            /\ SkipFlag(source) => ~HasSection(report.v, source)
            /\ Failed(source) =>
                  /\ HasSection(report.v, source)
                  /\ SectionBody(report.v, source)[1] = <<EmptySentence(source)>>
                  /\ report.v # ReportWithout(source)

C3_Witness ==
    /\ pc = "done"
    /\ \E failed \in Sources : Failed(failed)
    /\ \E skipped \in Sources : SkipFlag(skipped)

\* the "##" lines of a text, in order
Headers(lines) == SelectSeq(lines, LAMBDA line : line[1] = "##")

\* C4: the "##" headers of the report are the fixed order Economic, Earnings,
\* Twitter, Reddit restricted to the inputs that are present, after the title
\* line and the timestamp line; with all four inputs absent the report is the
\* title and the timestamp lines alone.
C4_SectionOrderFixed ==
    ~report.isNone =>
        /\ report.v[1] = <<"#", "Market Intelligence Report">>
        /\ report.v[2] = <<"_Generated on", GeneratedAt, "_">>
        /\ \A i \in 1..Len(report.v) : report.v[i][1] = "##" => i > 2
        /\ Headers(report.v) =
              (IF economic_events.isNone THEN <<>> ELSE << <<"##", "Economic Calendar">> >>)
              \o (IF earnings_events.isNone THEN <<>> ELSE << <<"##", "Earnings Calendar">> >>)
              \o (IF twitter_posts.isNone THEN <<>> ELSE << <<"##", "Twitter Highlights">> >>)
              \o (IF reddit_posts.isNone THEN <<>> ELSE << <<"##", "Reddit Highlights">> >>)
        /\ (\A source \in Sources : Stored(source).isNone) =>
              report.v = << <<"#", "Market Intelligence Report">>,
                            <<"_Generated on", GeneratedAt, "_">>,
                            BlankLine >>

C4_Witness ==
    /\ ~report.isNone
    /\ \A source \in Sources : ~Stored(source).isNone


InvalidWindowError == "ValueError: end date must be after start date"

\* the part of C5 that holds: for every window with end < start, the economic
\* and the earnings collector raise the invalid-window ValueError, and no HTTP
\* request has been issued by the call.
C5_WindowCheckedBeforeNetwork ==
    (args.fn \in {"economic", "earnings"} /\ args.end < args.start) =>
        /\ requests = <<>>
        /\ call = NoCall
        /\ pc # "direct" => ret = Raised(InvalidWindowError)

C5_Witness ==
    /\ args.fn = "earnings"
    /\ args.end < args.start
    /\ pc = "returned"
    /\ ret = Raised(InvalidWindowError)

\* the arguments of the direct call hold a window whose end precedes its start
InvalidWindow ==
    \/ args.fn \in {"economic", "earnings"} /\ args.end < args.start
    \/ /\ args.fn = "twitter"
       /\ args.start_time # <<>>
       /\ args.end_time # <<>>
       /\ args.end_time[1] < args.start_time[1]

\* C5: for all windows with end < start, every collector fails with an
\* invalid-window error before issuing any network call: the call has issued
\* no HTTP request, and it ends raising the invalid-window error.
C5_EveryCollectorChecksWindow ==
    InvalidWindow =>
        /\ requests = <<>>
        /\ pc # "direct" => ret = Raised(InvalidWindowError)

MainCallSites == {"economic_ret", "earnings_ret", "twitter_ret", "reddit_ret"}

MalformedRecordErrors == { "ValueError: could not convert string to float" }

\* C7: a record with an unparseable sub-field in an otherwise successful
\* response gets an absent value for that field and every record is returned:
\* no collection fails because of one malformed record, and the economic
\* release_time of an unparseable timestamp is None.
C7_MalformedRecordTolerated ==
    /\ ret.kind = "raise" => ret.exc \notin MalformedRecordErrors
    /\ ~economic_events.isNone =>
          \A i \in 1..Len(economic_events.v) :
              Get(economic_events.v[i], "DateUTC") = "soon" =>
                  release_time(economic_events.v[i]) = None

\* the cells of the table rows of a text
TableCells(lines) ==
    UNION { {lines[i][j] : j \in 2..Len(lines[i])} : i \in {n \in 1..Len(lines) : lines[n][1] = "|"} }

\* C8: events_to_markdown and earnings_to_markdown render an absent field
\* (key missing or value null) as an empty cell, never as the text "None" or
\* "null".
C8_AbsentFieldsRenderEmpty ==
    /\ ~economic_events.isNone =>
          TableCells(events_to_markdown(economic_events.v)) \cap {"None", "null"} = {}
    /\ ~earnings_events.isNone =>
          TableCells(earnings_to_markdown(earnings_events.v)) \cap {"None", "null"} = {}

\* the collector of the source succeeded and no key of its result holds a record
ZeroRecords(source) ==
    /\ ~Stored(source).isNone
    /\ ~Failed(source)
    /\ IF source = "economic" THEN Stored(source).v = <<>>
       ELSE \A i \in 1..Len(Stored(source).v) : Stored(source).v[i].v = <<>>

\* the sentence a renderer writes where a list of records is empty
NoDataSentence(source) ==
    CASE source = "economic" -> "No economic events found."
      [] source = "earnings" -> "No scheduled earnings releases."
      [] source = "twitter" -> "No recent tweets found."
      [] source = "reddit" -> "No new posts."

IsTableSeparator(line) ==
    line[1] \in {"|---|---|---|---|---|---|---|", "|---|---|---|---|---|"}

\* C9: a successful result with zero records renders the fixed 'no data'
\* sentence and no table: the section holds the sentence and no table line,
\* and nowhere in the report is a table header directly followed by anything
\* but a row.
C9_EmptyResultRendersSentence ==
    ~report.isNone =>
        /\ \A i \in 1..Len(report.v) :
              IsTableSeparator(report.v[i]) =>
                  i < Len(report.v) /\ report.v[i + 1][1] = "|"
        /\ \A source \in Sources :
              ZeroRecords(source) =>
                  LET body == SectionBody(report.v, source) IN
                  /\ \E i \in 1..Len(body) : body[i] = <<NoDataSentence(source)>>
                  /\ \A i \in 1..Len(body) :
                        ~IsTableSeparator(body[i]) /\ body[i][1] \notin {"|", "-"}

C9_Witness ==
    /\ pc = "done"
    /\ args.lookahead = MaxLookahead
    /\ ZeroRecords("earnings")
    /\ ZeroRecords("twitter")
    /\ ZeroRecords("reddit")
    /\ Len(twitter_posts.v) = 2

\* how far main has come
PcRank ==
    CASE pc = "economic" -> 1 [] pc = "economic_ret" -> 2
      [] pc = "earnings" -> 3 [] pc = "earnings_ret" -> 4
      [] pc = "twitter" -> 5 [] pc = "twitter_ret" -> 6
      [] pc = "reddit" -> 7 [] pc = "reddit_ret" -> 8
      [] OTHER -> 9

\* where main stands while the try block of the source is being left
ReturnRank(source) ==
    CASE source = "economic" -> 2 [] source = "earnings" -> 4
      [] source = "twitter" -> 6 [] source = "reddit" -> 8

\* C10: in a run of main each collector is invoked at most once; a source
\* whose collector failed has been invoked once, main is past its try block
\* and its failure was printed once; and the report shows its failed outcome:
\* the section of the empty result the except clause stored.
C10_NoRetry ==
    /\ \A source \in Sources : invoked[source] <= 1
    /\ \A source \in Sources :
          Failed(source) =>
              /\ invoked[source] = 1
              /\ PcRank > ReturnRank(source)
              /\ Len(SelectSeq(stderr, LAMBDA line : line[2] = source)) = 1
    /\ ~report.isNone =>
          \A source \in Sources :
              Failed(source) =>
                  SectionBody(report.v, source) = << <<EmptySentence(source)>>, BlankLine >>

C10_Witness ==
    /\ pc = "done"
    /\ Failed("earnings")
    /\ Failed("reddit")
    /\ invoked["earnings"] = 1

\* the requests the step adds to the log
NewRequests == SubSeq(requests', Len(requests) + 1, Len(requests'))

\* the positions of the requests of one endpoint in the log
RequestsTo(endpoint) == {i \in 1..Len(requests) : requests[i].endpoint = endpoint}

\* the handle the loop of fetch_recent_tweets is at, and the name it looks up
CurrentHandle == call.targets[call.idx]
CurrentUsername == Lower(LstripAt(CurrentHandle))

\* the tweets dict after the step: the frame's while the loop goes on, the
\* returned one when the call ends
TweetsAfter == IF call'.fn = "twitter" THEN call'.acc ELSE ret'.value

\* a step of fetch_recent_tweets respects the lookup: a timeline request is
\* issued only inside the loop (the lookup has returned its mapping without
\* error), with the id the mapping holds for the handle of this turn; a turn
\* for a handle the mapping does not hold issues nothing and leaves the
\* handle's list empty; a call that raises is over, so it issues nothing more
C11_StepFollowsLookup ==
    /\ \A k \in 1..Len(NewRequests) :
          NewRequests[k].endpoint = "timeline" =>
              /\ call.fn = "twitter"
              /\ ret.kind = "none"
              /\ CurrentUsername \in DictKeys(call.id_mapping)
              /\ NewRequests[k].arg[1] = DictAt(call.id_mapping, CurrentUsername)
              /\ Len(NewRequests) = 1
    /\ (call.fn = "twitter" /\ CurrentUsername \notin DictKeys(call.id_mapping)) =>
          /\ NewRequests = <<>>
          /\ ret'.kind # "raise"
          /\ DictAt(TweetsAfter, CurrentHandle) = <<>>
    /\ ret'.kind = "raise" => call'.fn = "none"

\* the log and the result of fetch_recent_tweets: one lookup at most, ahead
\* of every timeline request; no timeline request without a lookup; the loop
\* runs only after the lookup gave a mapping; the result has one entry per
\* handle
C11_LookupFirst ==
    args.fn = "twitter" =>
        /\ Cardinality(RequestsTo("lookup")) <= 1
        /\ \A i \in RequestsTo("timeline") : \E j \in RequestsTo("lookup") : j < i
        /\ call.fn = "twitter" =>
              /\ ret.kind = "none"
              /\ RequestsTo("lookup") # {}
              /\ \A i \in call.idx..Len(call.targets) :
                    DictAt(call.acc, call.targets[i]) = <<>>
        /\ (pc = "direct_ret" /\ ret.kind = "raise" /\ Len(requests) <= 1) =>
              RequestsTo("timeline") = {}
        /\ ret.kind = "ok" =>
              DictKeys(ret.value) = {args.handles[i] : i \in 1..Len(args.handles)}

\* C11: in every execution of fetch_recent_tweets the lookup call completes
\* before any timeline call is issued; a timeline call is issued for a handle
\* only with the id the lookup resolved for it; a handle the lookup did not
\* resolve gets no timeline call and an empty list in the result; and if the
\* lookup reports errors no timeline call is issued at all.
C11_LookupSequenced == [](C11_LookupFirst) /\ [][C11_StepFollowsLookup]_vars

\* alice was resolved and fetched, @Bob was not resolved: one timeline request
C11_Witness ==
    /\ args.fn = "twitter"
    /\ args.handles = <<"alice", "@Bob">>
    /\ pc = "returned"
    /\ ret.kind = "ok"
    /\ Cardinality(RequestsTo("lookup")) = 1
    /\ Cardinality(RequestsTo("timeline")) = 1
    /\ requests[2].arg[1] = "11"
    /\ DictAt(ret.value, "alice") # <<>>
    /\ DictAt(ret.value, "@Bob") = <<>>

\* the direct call is fetch_earnings with a valid window
ValidEarningsCall == args.fn = "earnings" /\ args.start <= args.end

\* the requests of fetch_earnings so far are one per day, from start on, in
\* ascending date order and never past end; while the loop runs it stands at
\* the day after the last request; a call that returned has asked for every
\* day of the window and its mapping holds exactly the days start..end
C12_OnePerDay ==
    ValidEarningsCall =>
        /\ Len(requests) <= args.end - args.start + 1
        /\ requests = [i \in 1..Len(requests) |->
                          Request("earnings", "earnings", <<DateStr(args.start + i - 1)>>)]
        /\ call.fn = "earnings" =>
              /\ call.current = args.start + Len(requests)
              /\ call.end_date = args.end
              /\ DictKeys(call.acc) = args.start..(call.current - 1)
        /\ ret.kind = "ok" =>
              /\ call = NoCall
              /\ Len(requests) = args.end - args.start + 1
              /\ DictKeys(ret.value) = args.start..args.end
              /\ Len(ret.value) = args.end - args.start + 1

\* C12: for every valid window (end >= start) in which all requests succeed,
\* fetch_earnings issues exactly one request per calendar day of the window,
\* in ascending date order (end - start + 1 requests in total), then
\* terminates and returns a mapping whose keys are exactly the days
\* start..end inclusive.
C12_OneRequestPerDay ==
    /\ [](C12_OnePerDay)
    /\ ValidEarningsCall ~> (pc = "returned")

\* a window of MaxDay + 1 days, every request answered, the call returned
C12_Witness ==
    /\ args.fn = "earnings"
    /\ args.start = 0
    /\ args.end = MaxDay
    /\ pc = "returned"
    /\ ret.kind = "ok"
    /\ Len(requests) = MaxDay + 1

\* the collectors that make one call per day, per handle or per listing
MultiCall == {"earnings", "twitter", "reddit"}

\* the HTTP requests the collector of the source has issued
SubCalls(source) == SelectSeq(requests, LAMBDA q : q.source = source)

\* where main stands when the collector of the source has ended
ReturnSite(source) ==
    CASE source = "economic" -> "economic_ret"
      [] source = "earnings" -> "earnings_ret"
      [] source = "twitter" -> "twitter_ret"
      [] source = "reddit" -> "reddit_ret"

\* the collector of the source has raised, and main has not yet handled it
FailedCall(source) == pc = ReturnSite(source) /\ ret.kind = "raise"

\* the collector failed on a sub-call after at least one earlier sub-call
PartialFailure(source) == Failed(source) /\ Len(SubCalls(source)) >= 2

\* a failed call is over: its frame, with the records fetched so far, is gone;
\* after a partial failure main holds the empty result for the source and the
\* section of the source is the empty placeholder alone
C13_PartialDiscarded ==
    \A source \in MultiCall :
        /\ FailedCall(source) => call = NoCall
        /\ PartialFailure(source) =>
              /\ Stored(source) = Some(<<>>)
              /\ ~report.isNone =>
                    SectionBody(report.v, source) = << <<EmptySentence(source)>>, BlankLine >>

\* once the collector of a source has failed, no request of that source is
\* issued any more
C13_NoFurtherSubCalls ==
    \A source \in MultiCall :
        (FailedCall(source) \/ Failed(source)) => SubCalls(source)' = SubCalls(source)

\* C13: when a multi-call collector (earnings, Reddit, Twitter) fails on its
\* k-th sub-call after earlier sub-calls succeeded, no further sub-calls of
\* that source are issued, every record already fetched for it is discarded,
\* main stores the empty result for it, and the report section of that source
\* shows only the empty placeholder, never partial data.
C13_FailureDiscardsPartial == [](C13_PartialDiscarded) /\ [][C13_NoFurtherSubCalls]_vars

\* all three multi-call collectors failed on their second sub-call
C13_Witness ==
    /\ pc = "done"
    /\ \A source \in MultiCall : PartialFailure(source) /\ Len(SubCalls(source)) = 2
    /\ Len(ListingTargets(parse_handles(args.reddit_subreddits),
                          parse_handles(args.reddit_users))) = 2

\* the comma-separated option holds an item that is not blank
ItemGiven(value) == ~value.isNone /\ \E i \in 1..Len(value.v) : Strip(value.v[i]) # ""

\* the source is to appear: its skip flag is not set and, for Twitter and
\* Reddit, a handle, subreddit or user is given
Enabled(source) ==
    CASE source = "economic" -> ~args.skip_economic
      [] source = "earnings" -> ~args.skip_earnings
      [] source = "twitter" -> ~args.skip_twitter /\ ItemGiven(args.twitter)
      [] source = "reddit" ->
            ~args.skip_reddit /\ (ItemGiven(args.reddit_subreddits) \/ ItemGiven(args.reddit_users))

\* C14: in main the Twitter collector is invoked and a Twitter section
\* appears iff the source is not skipped and the parsed handle list is not
\* empty; the Reddit collector is invoked and a Reddit section appears iff the
\* source is not skipped and the parsed subreddit list or user list is not
\* empty; the economic and earnings sections appear iff their skip flag is
\* not set.
C14_SectionIffEnabled ==
    /\ \A source \in Sources :
          /\ invoked[source] = 1 => Enabled(source)
          /\ (PcRank > ReturnRank(source) - 1 /\ Enabled(source)) => invoked[source] = 1
          /\ PcRank > ReturnRank(source) => (~Stored(source).isNone <=> Enabled(source))
    /\ ~report.isNone =>
          \A source \in Sources : HasSection(report.v, source) <=> Enabled(source)

\* --twitter " " with Twitter not skipped: no handle, so no Twitter section;
\* Reddit with a user only; economic skipped
C14_Witness ==
    /\ pc = "done"
    /\ args.twitter = Some(<<" ">>)
    /\ ~args.skip_twitter
    /\ ~HasSection(report.v, "twitter")
    /\ args.reddit_subreddits = NoneOpt
    /\ HasSection(report.v, "reddit")
    /\ args.skip_economic
    /\ HasSection(report.v, "earnings")


====
